---- MODULE Spec2Model ----
(***************************************************************************)
(* Model of snapcontrol.py: the full/differential backup rotation, the     *)
(* reconstruction of backup cycles from the files of the target directory, *)
(* the retention cleanup and the space check of an automatic run.          *)
(*                                                                         *)
(* Times are whole ticks of the wall clock.  Sizes are in MiB.  A file is  *)
(* a record [dir, stem, ext, mtime, size]; its path is [dir, stem, ext].   *)
(* A stem is [kind, tok, num]: kind is the "_full_" / "_diff_" part of the *)
(* name, tok the value of its <YYYYMMDD>_<HHMMSS> token (NoTok when the    *)
(* name carries no parsable token, e.g. after a manual rename) and num the *)
(* "#NN" sequence number of a differential (0 for a full backup).          *)
(***************************************************************************)
EXTENDS Integers, Sequences, FiniteSets, TLC

VARIABLES
    config,         \* the loaded config.json (max_differential_backups, retention)
    files,          \* the files below backup_dir on the target volume
    state_file,     \* backup_state.json: the record last written to it
    state_file_partial, \* TRUE: the file holds only a prefix of that record
    state,          \* BackupManager.state, the BackupState held in memory
    clock,          \* datetime.now()
    pc,             \* position of the running process in main(); "idle": none runs
    run,            \* locals of the current invocation of main()
    exit_code,      \* exit status of the last finished process
    attempts,       \* the imaging calls made so far and how each ended, in order
    last_cleanup,   \* locals of the last cleanup_old_cycles call at its return
    cycles,         \* result of the last get_backup_cycles call of --status
    found_disks,    \* main's found_disks: the result of scan_for_target_disks
    target_disk     \* main's target_disk: the result of select_best_disk

vars == <<config, files, state_file, state_file_partial, state, clock, pc, run,
          exit_code, attempts, last_cleanup, cycles, found_disks, target_disk>>

----------------------------------------------------------------------------
(* Bounds of the model *)

MaxTime == 6            \* the clock stops here: at most MaxTime \div 2 imaging calls
MaxMaxDiff == 2         \* max_differential_backups is drawn from 1..MaxMaxDiff
MaxKeep == 2            \* retention.keep_cycles is drawn from 0..MaxKeep
MaxLocked == 1          \* files whose unlink fails during one cleanup
DirTime == 4            \* timestamps of the directories drawn by InitCycles
DirFulls == 2           \* full artifacts in a directory drawn by InitCycles
DirDiffs == 2           \* differential artifacts in a directory drawn by InitCycles
MaxDisks == 3           \* target disks a scan of ScanAndSelect finds
MaxFree == 4            \* their free_bytes are drawn from 0..MaxFree

MaxSize == 4            \* sizes of the full images drawn by InitSpace
MaxQuarters == 4        \* space_reserve_percent drawn by InitSpace: 0, 25, .. 25 * MaxQuarters

(* Sizes, in MiB *)
FullSize == 61440       \* a complete full image (60 GiB)
HashSize == 1024        \* its .hsh companion
DiffSize == 5120        \* a complete differential image (5 GiB)
PartialSize == 10240    \* what a failed or killed imaging call leaves behind
DiskTotal == 204800     \* capacity of the selected target volume (200 GiB)

(* Program constants *)
DefaultRequired == 51200    \* 50 * 1024**3 bytes, in MiB
ReservePercent == 50        \* retention.space_reserve_percent default

(* A file name without a parsable date token, lines 644-651 *)
NoTok == 0

(* Python's None where a path is expected *)
None == [dir |-> "None", stem |-> [kind |-> "None", tok |-> 0, num |-> 0],
         ext |-> "None"]

----------------------------------------------------------------------------
(* Generic helpers standing for Python built-ins *)

Min(a, b) == IF a <= b THEN a ELSE b
Max(a, b) == IF a >= b THEN a ELSE b

RECURSIVE SumSeq(_)
SumSeq(s) == IF s = <<>> THEN 0 ELSE Head(s) + SumSeq(Tail(s))

RECURSIVE Concat(_)
Concat(ss) == IF ss = <<>> THEN <<>> ELSE Head(ss) \o Concat(Tail(ss))

SeqToSet(s) == {s[i] : i \in 1..Len(s)}

(* seq[:-k] and seq[-k:] of Python for k >= 0; -0 is 0, so seq[:-0] is    *)
(* empty and seq[-0:] is the whole list.                                   *)
PySliceTo(s, k) ==
    IF k = 0 THEN <<>> ELSE SubSeq(s, 1, Max(Len(s) - k, 0))
PySliceFrom(s, k) ==
    IF k = 0 THEN s ELSE SubSeq(s, Max(Len(s) - k, 0) + 1, Len(s))

----------------------------------------------------------------------------
(* Paths and names *)

PathOf(f) == [dir |-> f.dir, stem |-> f.stem, ext |-> f.ext]
Exists(fs, p) == \E f \in fs : PathOf(f) = p
Stat(fs, p) == CHOOSE f \in fs : PathOf(f) = p
WithSuffix(p, e) == [p EXCEPT !.ext = e]

(* Lexicographic order of file names within one directory: names with a    *)
(* numeric date token sort by it, a renamed file sorts after them.         *)
NameKey(p) ==
    <<IF p.dir = "differential" THEN 0 ELSE 1,
      IF p.stem.tok = NoTok THEN MaxTime + DirTime + 1 ELSE p.stem.tok,
      p.stem.num,
      IF p.ext = "hsh" THEN 0 ELSE IF p.ext = "sn1" THEN 1 ELSE 2>>
KeyLess(a, b) ==
    \/ a[1] < b[1]
    \/ a[1] = b[1] /\ a[2] < b[2]
    \/ a[1] = b[1] /\ a[2] = b[2] /\ a[3] < b[3]
    \/ a[1] = b[1] /\ a[2] = b[2] /\ a[3] = b[3] /\ a[4] < b[4]
NameLess(p, q) == KeyLess(NameKey(p), NameKey(q))

(* sorted(...) of a set of paths *)
RECURSIVE Sorted(_)
First(ps, m) == <<m>> \o Sorted(ps \ {m})
Sorted(ps) ==
    IF ps = {} THEN <<>>
    ELSE First(ps, CHOOSE p \in ps : \A q \in ps \ {p} : NameLess(p, q))

(* parent.glob(f"{stem}.*") *)
GlobStem(fs, dir, stem) ==
    Sorted({PathOf(f) : f \in {g \in fs : g.dir = dir /\ g.stem = stem}})

(* dir.glob("*_full_*.sna") and dir.glob("*_diff_*.sna") *)
GlobKind(fs, dir, kind) ==
    Sorted({PathOf(f) : f \in {g \in fs : g.dir = dir /\ g.stem.kind = kind
                                          /\ g.ext = "sna"}})

FullName(ts) == [kind |-> "full", tok |-> ts, num |-> 0]
DiffName(ts, n) == [kind |-> "diff", tok |-> ts, num |-> n]

----------------------------------------------------------------------------
(* BackupCycle.get_all_files: the list may name a path more than once *)

(* The same list without the globs: the primary files only *)
get_all_files_primary(fs, c) ==
    <<c.full_backup>>
    \o (IF c.hash_file # None /\ Exists(fs, c.hash_file)
        THEN <<c.hash_file>> ELSE <<>>)
    \o c.differentials

get_all_files(fs, c) ==
    GlobStem(fs, c.full_backup.dir, c.full_backup.stem)
    \o (IF c.hash_file # None /\ Exists(fs, c.hash_file)
        THEN <<c.hash_file>> ELSE <<>>)
    \o Concat([i \in 1..Len(c.differentials) |->
                 GlobStem(fs, c.differentials[i].dir, c.differentials[i].stem)])

(* Timestamp of a full backup: from the file name, else the file's mtime *)
CycleTimestamp(fs, p) ==
    IF p.stem.tok # NoTok THEN p.stem.tok ELSE Stat(fs, p).mtime

(* The same test with the lower bound of the interval made exclusive *)
is_for_this_cycle_strict(fs, full_backups, full_backup, timestamp, diff) ==
    LET diff_time == Stat(fs, diff).mtime
    IN  /\ diff_time > timestamp
        /\ ~ \E i \in 1..Len(full_backups) :
                /\ full_backups[i] # full_backup
                /\ timestamp < Stat(fs, full_backups[i]).mtime
                /\ Stat(fs, full_backups[i]).mtime <= diff_time

is_for_this_cycle(fs, full_backups, full_backup, timestamp, diff) ==
    LET diff_time == Stat(fs, diff).mtime
    IN  /\ diff_time >= timestamp
        /\ ~ \E i \in 1..Len(full_backups) :
                /\ full_backups[i] # full_backup
                /\ timestamp < Stat(fs, full_backups[i]).mtime
                /\ Stat(fs, full_backups[i]).mtime <= diff_time

RECURSIVE SelectSeq2(_, _, _, _, _)
SelectSeq2(fs, full_backups, full_backup, timestamp, diffs) ==
    IF diffs = <<>> THEN <<>>
    ELSE (IF is_for_this_cycle(fs, full_backups, full_backup, timestamp, Head(diffs))
          THEN <<Head(diffs)>> ELSE <<>>)
         \o SelectSeq2(fs, full_backups, full_backup, timestamp, Tail(diffs))

(* get_backup_cycles, lines 685-690: the size of a cycle *)
SumSizes(fs, all) ==
    SumSeq([i \in 1..Len(all) |->
              IF Exists(fs, all[i]) THEN Stat(fs, all[i]).size ELSE 0])
TotalSize(fs, c) == SumSizes(fs, get_all_files(fs, c))
WithTotalSize(fs, c) == [c EXCEPT !.total_size_bytes = TotalSize(fs, c)]

(* get_backup_cycles, lines 653-656: the companion file *)
HashFileOf(fs, hsh) == IF Exists(fs, hsh) THEN hsh ELSE None

(* get_backup_cycles, lines 641-692: the cycle of one full backup *)
CycleAt(fs, full_backups, full_backup, timestamp) ==
    WithTotalSize(fs,
        [full_backup |-> full_backup,
         hash_file |-> HashFileOf(fs, WithSuffix(full_backup, "hsh")),
         differentials |->
             SelectSeq2(fs, full_backups, full_backup, timestamp,
                        GlobKind(fs, "differential", "diff")),
         timestamp |-> timestamp,
         total_size_bytes |-> 0])
MakeCycle(fs, full_backups, full_backup) ==
    CycleAt(fs, full_backups, full_backup, CycleTimestamp(fs, full_backup))

(* list.sort(key=timestamp): stable *)
RECURSIVE InsertByTimestamp(_, _)
InsertByTimestamp(s, c) ==
    IF s = <<>> THEN <<c>>
    ELSE IF Head(s).timestamp <= c.timestamp
         THEN <<Head(s)>> \o InsertByTimestamp(Tail(s), c)
         ELSE <<c>> \o s

RECURSIVE SortByTimestamp(_)
SortByTimestamp(s) ==
    IF s = <<>> THEN <<>>
    ELSE InsertByTimestamp(SortByTimestamp(SubSeq(s, 1, Len(s) - 1)), s[Len(s)])

CyclesOf(fs, full_backups) ==
    SortByTimestamp([i \in 1..Len(full_backups) |->
                       MakeCycle(fs, full_backups, full_backups[i])])
get_backup_cycles(fs) == CyclesOf(fs, GlobKind(fs, "full", "full"))

----------------------------------------------------------------------------
(* Space assessment *)

UsedBytes(fs) == SumSizes(fs, Sorted({PathOf(f) : f \in fs}))

NoInfo ==
    [total_bytes |-> 0, free_bytes |-> 0, used_bytes |-> 0,
     last_cycle_size_bytes |-> 0, required_bytes |-> 0,
     has_enough_space |-> FALSE]

(* The estimate without the 50 GB default *)
OrDefault_none(required_bytes) == required_bytes

(* int(last_cycle_size * (1 + percent / 100)), and the 50 GB default *)
OrDefault(required_bytes) ==
    IF required_bytes = 0 THEN DefaultRequired ELSE required_bytes
RequiredBytes(last_cycle_size, percent) ==
    OrDefault((last_cycle_size * (100 + percent)) \div 100)

LastCycleSize(cs) ==
    IF cs # <<>> THEN cs[Len(cs)].total_size_bytes ELSE 0

(* The same record with the comparison made strict *)
MakeInfo_strict(total_bytes, used_bytes, last_cycle_size, required_bytes) ==
    [total_bytes |-> total_bytes, free_bytes |-> total_bytes - used_bytes,
     used_bytes |-> used_bytes,
     last_cycle_size_bytes |-> last_cycle_size,
     required_bytes |-> required_bytes,
     has_enough_space |-> total_bytes - used_bytes > required_bytes]

MakeInfo(total_bytes, used_bytes, last_cycle_size, required_bytes) ==
    [total_bytes |-> total_bytes, free_bytes |-> total_bytes - used_bytes,
     used_bytes |-> used_bytes,
     last_cycle_size_bytes |-> last_cycle_size,
     required_bytes |-> required_bytes,
     has_enough_space |-> total_bytes - used_bytes >= required_bytes]

SpaceInfo(total, used_bytes, last_cycle_size, percent) ==
    MakeInfo(total, used_bytes, last_cycle_size,
             RequiredBytes(last_cycle_size, percent))

(* query_ok = FALSE: shutil.disk_usage raised *)
get_disk_space_info(fs, total, percent, query_ok) ==
    IF ~query_ok THEN NoInfo
    ELSE SpaceInfo(total, UsedBytes(fs), LastCycleSize(get_backup_cycles(fs)),
                   percent)

----------------------------------------------------------------------------
(* Retention cleanup *)

NoStats ==
    [total_cycles |-> 0, kept_cycles |-> 0, deleted_cycles |-> 0,
     deleted_files |-> 0, freed_bytes |-> 0, errors |-> <<>>]

(* The unlink loop over one cycle's files; the paths in locked cannot be   *)
(* unlinked (unlink raises).  acc is [files, stats].                       *)
Unlink(acc, p, locked) ==
    IF ~Exists(acc.files, p) THEN acc
    ELSE IF p \in locked
    THEN [acc EXCEPT !.stats.errors = Append(@, p)]
    ELSE [files |-> acc.files \ {Stat(acc.files, p)},
          stats |-> [acc.stats EXCEPT
                       !.deleted_files = @ + 1,
                       !.freed_bytes = @ + Stat(acc.files, p).size]]

RECURSIVE DeleteFiles(_, _, _)

(* The same loop giving up at the first file that cannot be unlinked *)
DeleteFiles_abort(acc, paths, locked) ==
    IF paths = <<>> THEN acc
    ELSE IF Head(paths) \in locked /\ Exists(acc.files, Head(paths))
    THEN Unlink(acc, Head(paths), locked)
    ELSE DeleteFiles(Unlink(acc, Head(paths), locked), Tail(paths), locked)

DeleteFiles(acc, paths, locked) ==
    IF paths = <<>> THEN acc
    ELSE DeleteFiles(Unlink(acc, Head(paths), locked), Tail(paths), locked)

(* The same loop body with the dry-run branch left out *)
DeleteCycle_always(acc, c, dry_run, locked) ==
    DeleteFiles(acc, get_all_files(acc.files, c), locked)

DeleteCycle(acc, c, dry_run, locked) ==
    IF dry_run
    THEN [acc EXCEPT !.stats.freed_bytes = @ + c.total_size_bytes]
    ELSE DeleteFiles(acc, get_all_files(acc.files, c), locked)

RECURSIVE DeleteCycles(_, _, _, _)
DeleteCycles(acc, cs, dry_run, locked) ==
    IF cs = <<>> THEN acc
    ELSE DeleteCycles(DeleteCycle(acc, Head(cs), dry_run, locked), Tail(cs),
                      dry_run, locked)

(* A split that keeps the oldest cycles and condemns the newest *)
cycles_to_delete_newest(cs, keep_cycles) ==
    SubSeq(cs, Min(keep_cycles, Len(cs)) + 1, Len(cs))

cycles_to_delete(cs, keep_cycles) == PySliceTo(cs, keep_cycles)
cycles_to_keep(cs, keep_cycles) == PySliceFrom(cs, keep_cycles)

CleanupResult(acc, cs, del, kept, dry_run) ==
    [stats |-> acc.stats, files |-> acc.files, cycles |-> cs,
     to_delete |-> del, to_keep |-> kept, dry_run |-> dry_run, called |-> TRUE]

CleanupSplit(fs, cs, del, kept, dry_run, locked) ==
    CleanupResult(
        DeleteCycles([files |-> fs,
                      stats |-> [NoStats EXCEPT !.total_cycles = Len(cs),
                                                !.kept_cycles = Len(kept),
                                                !.deleted_cycles = Len(del)]],
                     del, dry_run, locked),
        cs, del, kept, dry_run)

CleanupOf(fs, cs, keep_cycles, dry_run, locked) ==
    IF Len(cs) <= keep_cycles
    THEN CleanupResult([files |-> fs,
                        stats |-> [NoStats EXCEPT !.total_cycles = Len(cs),
                                                  !.kept_cycles = Len(cs)]],
                       cs, <<>>, cs, dry_run)
    ELSE CleanupSplit(fs, cs, cycles_to_delete(cs, keep_cycles),
                      cycles_to_keep(cs, keep_cycles), dry_run, locked)

(* Returns the stats, the files left on the volume and the function's locals *)
cleanup_old_cycles(fs, keep_cycles, dry_run, locked) ==
    CleanupOf(fs, get_backup_cycles(fs), keep_cycles, dry_run, locked)

NoCleanup ==
    [stats |-> NoStats, files |-> {}, cycles |-> <<>>, to_delete |-> <<>>,
     to_keep |-> <<>>, dry_run |-> FALSE, called |-> FALSE]

(* The files a real cleanup would try to unlink: the candidates for a lock *)
Condemned(fs, keep_cycles) ==
    fs \ cleanup_old_cycles(fs, keep_cycles, FALSE, {}).files

LockChoices(fs, keep_cycles) ==
    {l \in SUBSET {PathOf(f) : f \in Condemned(fs, keep_cycles)} :
        Cardinality(l) <= MaxLocked}

----------------------------------------------------------------------------
(* Backup state and the full/differential decision *)

BackupState ==
    [last_full_backup |-> None, last_full_hash_file |-> None,
     differential_count |-> 0, backups |-> <<>>]

(* The same decision with the limit test off by one *)
determine_backup_type_late(st, fs, max_differentials) ==
    IF st.last_full_backup = None \/ st.last_full_hash_file = None
    THEN "full"
    ELSE IF ~Exists(fs, st.last_full_hash_file)
    THEN "full"
    ELSE IF st.differential_count > max_differentials
    THEN "full"
    ELSE "differential"

(* The same decision without the look at the companion file on disk *)
determine_backup_type_blind(st, fs, max_differentials) ==
    IF st.last_full_backup = None \/ st.last_full_hash_file = None
    THEN "full"
    ELSE IF st.differential_count >= max_differentials
    THEN "full"
    ELSE "differential"

determine_backup_type(st, fs, max_differentials) ==
    IF st.last_full_backup = None \/ st.last_full_hash_file = None
    THEN "full"
    ELSE IF ~Exists(fs, st.last_full_hash_file)
    THEN "full"
    ELSE IF st.differential_count >= max_differentials
    THEN "full"
    ELSE "differential"

(* run_backup, lines 518-549: the file names of the attempt *)
ImagePath(st, backup_type, ts) ==
    IF backup_type = "full"
    THEN [dir |-> "full", stem |-> FullName(ts), ext |-> "sna"]
    ELSE [dir |-> "differential",
          stem |-> DiffName(ts, st.differential_count + 1), ext |-> "sna"]

(* The same names with the companion of a full image put beside the       *)
(* differentials                                                           *)
HashPath_elsewhere(st, backup_type, image_path) ==
    IF backup_type = "full"
    THEN [image_path EXCEPT !.ext = "hsh", !.dir = "differential"]
    ELSE st.last_full_hash_file

HashPath(st, backup_type, image_path) ==
    IF backup_type = "full" THEN WithSuffix(image_path, "hsh")
    ELSE st.last_full_hash_file

(* The same update with a successful differential left uncounted *)
UpdateState_uncounted(st, backup_type, image_path, hash_path, code) ==
    IF code # 0 THEN st
    ELSE IF backup_type = "full"
    THEN [st EXCEPT !.last_full_backup = image_path,
                    !.last_full_hash_file = hash_path,
                    !.differential_count = 0]
    ELSE st

(* run_backup, lines 529-532 and 547-549: state update after the call *)
UpdateState(st, backup_type, image_path, hash_path, code) ==
    IF code # 0 THEN st
    ELSE IF backup_type = "full"
    THEN [st EXCEPT !.last_full_backup = image_path,
                    !.last_full_hash_file = hash_path,
                    !.differential_count = 0]
    ELSE [st EXCEPT !.differential_count = st.differential_count + 1]

(* run_backup, lines 581-586 *)
AppendHistory(st, ts, backup_type, image_path, code) ==
    [st EXCEPT !.backups = Append(@, [timestamp |-> ts, type |-> backup_type,
                                      file |-> image_path,
                                      success |-> (code = 0)])]

----------------------------------------------------------------------------
(* The process: main() *)

(* Python's None where a TargetDisk is expected *)
NoDisk == [disk_id |-> 0, total_bytes |-> 0, free_bytes |-> 0]

(* max(disks, key=lambda d: d.free_bytes): the first of the largest *)
RECURSIVE PyMax(_, _)
PyMax(best, rest) ==
    IF rest = <<>> THEN best
    ELSE PyMax(IF Head(rest).free_bytes > best.free_bytes THEN Head(rest) ELSE best,
               Tail(rest))

(* The same choice taking the last of the largest *)
select_best_disk_last(disks) ==
    IF disks = <<>> THEN NoDisk
    ELSE disks[CHOOSE i \in 1..Len(disks) :
                 /\ \A j \in 1..Len(disks) :
                       disks[j].free_bytes <= disks[i].free_bytes
                 /\ \A j \in (i + 1)..Len(disks) :
                       disks[j].free_bytes < disks[i].free_bytes]

select_best_disk(disks) ==
    IF disks = <<>> THEN NoDisk ELSE PyMax(Head(disks), Tail(disks))

(* scan_for_target_disks on a machine with the one target volume attached *)
TheVolume(fs) ==
    <<[disk_id |-> 1, total_bytes |-> DiskTotal,
       free_bytes |-> DiskTotal - UsedBytes(fs)]>>

(* main, lines 1158-1167: the scan result and the disk chosen from it *)
SelectDisk(disks) ==
    /\ found_disks' = disks
    /\ target_disk' = select_best_disk(disks)

(* How a call of subprocess.run on the imaging tool can end: the tool      *)
(* exits with a return code, the 2 hour timeout expires, or the tool       *)
(* cannot be started at all                                                *)
Outcomes ==
    {[kind |-> "exit", returncode |-> 0], [kind |-> "exit", returncode |-> 1],
     [kind |-> "timeout", returncode |-> 0], [kind |-> "oserror", returncode |-> 0]}

(* A wrapper that lets the exception of a timeout or a failed start through *)
(* as if the tool had exited with 0                                         *)
run_command_blind(o) == o.returncode

(* SnapshotWrapper._run_command, lines 379-401: the exit code it returns *)
run_command(o) == IF o.kind = "exit" THEN o.returncode ELSE -1

(* No BackupResult yet *)
NoResult == [made |-> FALSE, success |-> FALSE, exit_code |-> 0]

(* run_backup, lines 560-578 *)
BackupResult(code) == [made |-> TRUE, success |-> (code = 0), exit_code |-> code]

NoRun ==
    [mode |-> "none", force |-> "none", info1 |-> NoInfo, assessed |-> FALSE,
     cleaned |-> FALSE, info2 |-> NoInfo, reassessed |-> FALSE,
     invoked |-> FALSE, backup_type |-> "none", diff_num |-> 0,
     auto_type |-> "none", auto_num |-> 0,
     image_path |-> None, hash_path |-> None, ts |-> 0,
     ended |-> "none", result |-> NoResult]

Configs ==
    [max_differentials : 1..MaxMaxDiff, keep_cycles : 0..MaxKeep,
     space_reserve_percent : {ReservePercent}]

Init ==
    /\ config \in Configs
    /\ files = {}
    /\ state_file = BackupState
    /\ state_file_partial = FALSE
    /\ state = BackupState
    /\ clock = 0
    /\ pc = "idle"
    /\ run = NoRun
    /\ exit_code = 0
    /\ attempts = <<>>
    /\ last_cleanup = NoCleanup
    /\ cycles = <<>>
    /\ found_disks = <<>>
    /\ target_disk = NoDisk

(* A loader that takes whatever the record held *)
load_state_trusting(sf, partial) == sf

(* BackupManager._load_state: a missing file gives BackupState(), and so   *)
(* does a file json.load rejects (lines 457-459); a proper prefix of a     *)
(* JSON object is never a JSON document.                                   *)
load_state(sf, partial) == IF partial THEN BackupState ELSE sf

(* An exit status that does not tell a missing disk *)
ExitWithoutDisk_zero(mode) == 0

(* The exit status of a process whose scan found no configured disk: the  *)
(* return of line 1088 for --scan-disks, sys.exit(1) of line 1164 else    *)
ExitWithoutDisk(mode) == IF mode = "scan" THEN 0 ELSE 1

(* --scan-disks, lines 1086-1088 *)
ScanDisks ==
    /\ pc = "idle"
    /\ run' = [NoRun EXCEPT !.mode = "scan"]
    /\ exit_code' = ExitWithoutDisk("scan")
    /\ last_cleanup' = NoCleanup
    /\ cycles' = <<>>
    /\ pc' = "exited"
    /\ UNCHANGED <<config, files, state_file, state, clock, attempts>>
    /\ UNCHANGED <<found_disks, target_disk>>
    /\ UNCHANGED state_file_partial

(* main, lines 1159-1164: no volume carries a configured disk id *)
NoDiskFound ==
    /\ pc = "idle"
    /\ run' = [NoRun EXCEPT !.mode = "backup"]
    /\ exit_code' = ExitWithoutDisk("backup")
    /\ last_cleanup' = NoCleanup
    /\ cycles' = <<>>
    /\ pc' = "exited"
    /\ UNCHANGED <<config, files, state_file, state, clock, attempts>>
    /\ found_disks' = <<>>
    /\ UNCHANGED target_disk
    /\ UNCHANGED state_file_partial

(* A scan that touches what it reads, setting each mtime to now *)
AfterScan_touch(fs, now) == {[f EXCEPT !.mtime = now] : f \in fs}

(* The directory after get_backup_cycles has gone through it: glob, stat   *)
(* and exists only read (lines 639-689)                                    *)
AfterScan(fs, now) == fs

(* --status, lines 1178-1200 *)
Status ==
    /\ pc = "idle"
    /\ state' = load_state(state_file, state_file_partial)
    /\ run' = [NoRun EXCEPT !.mode = "status",
                 !.backup_type =
                     determine_backup_type(load_state(state_file, state_file_partial),
                                           files, config.max_differentials)]
    /\ cycles' = get_backup_cycles(files)
    /\ files' = AfterScan(files, clock)
    /\ last_cleanup' = NoCleanup
    /\ exit_code' = 0
    /\ pc' = "exited"
    /\ UNCHANGED <<config, state_file, clock, attempts>>
    /\ SelectDisk(TheVolume(files))
    /\ UNCHANGED state_file_partial

(* --cleanup and --cleanup-dry-run, lines 1203-1206 *)
CleanupMode ==
    /\ pc = "idle"
    /\ \E dry_run \in BOOLEAN :
       \E locked \in LockChoices(files, config.keep_cycles) :
       \E r \in {cleanup_old_cycles(files, config.keep_cycles, dry_run, locked)} :
          /\ files' = r.files
          /\ last_cleanup' = [r EXCEPT !.files = {}]
    /\ run' = [NoRun EXCEPT !.mode = "cleanup"]
    /\ state' = load_state(state_file, state_file_partial)
    /\ cycles' = <<>>
    /\ exit_code' = 0
    /\ pc' = "exited"
    /\ UNCHANGED <<config, state_file, clock, attempts>>
    /\ SelectDisk(TheVolume(files))
    /\ UNCHANGED state_file_partial

(* --dry-run, lines 1216-1224 *)
DryRun ==
    /\ pc = "idle"
    /\ \E force \in {"none", "full", "differential"} :
          run' = [NoRun EXCEPT !.mode = "dry_run", !.force = force,
                    !.backup_type =
                        IF force # "none" THEN force
                        ELSE determine_backup_type(
                                 load_state(state_file, state_file_partial),
                                 files, config.max_differentials)]
    /\ \E r \in {cleanup_old_cycles(files, config.keep_cycles, TRUE, {})} :
          /\ last_cleanup' = [r EXCEPT !.files = {}]
          /\ files' = r.files
    /\ state' = load_state(state_file, state_file_partial)
    /\ cycles' = <<>>
    /\ exit_code' = 0
    /\ pc' = "exited"
    /\ UNCHANGED <<config, state_file, clock, attempts>>
    /\ SelectDisk(TheVolume(files))
    /\ UNCHANGED state_file_partial

(* A backup run up to the call of check_and_prepare_backup, lines 1157-1226 *)
StartBackup ==
    /\ pc = "idle"
    /\ clock + 2 <= MaxTime
    /\ \E force \in {"none", "full", "differential"} :
          run' = [NoRun EXCEPT !.mode = "backup", !.force = force]
    /\ state' = load_state(state_file, state_file_partial)
    /\ pc' = "check"
    /\ last_cleanup' = NoCleanup
    /\ cycles' = <<>>
    /\ UNCHANGED <<config, files, state_file, clock, exit_code, attempts>>
    /\ SelectDisk(TheVolume(files))
    /\ UNCHANGED state_file_partial

(* A check that also cleans up when more cycles are on disk than are kept *)
needs_cleanup_over_retention(info, fs, keep_cycles) ==
    \/ ~info.has_enough_space
    \/ Len(get_backup_cycles(fs)) > keep_cycles

(* check_and_prepare_backup, line 836: the only condition under which an   *)
(* automatic run calls cleanup_old_cycles                                  *)
needs_cleanup(info, fs, keep_cycles) == ~info.has_enough_space

(* check_and_prepare_backup, lines 832-836: the first assessment *)
Assess ==
    /\ pc = "check"
    /\ \E query_ok \in BOOLEAN :
       \E info \in {get_disk_space_info(files, DiskTotal,
                                        config.space_reserve_percent, query_ok)} :
          /\ run' = [run EXCEPT !.info1 = info, !.assessed = TRUE]
          /\ pc' = IF needs_cleanup(info, files, config.keep_cycles)
                   THEN "cleanup" ELSE "backup"
    /\ UNCHANGED <<config, files, state_file, state, clock,
                   exit_code, attempts, last_cleanup, cycles>>
    /\ UNCHANGED <<found_disks, target_disk>>
    /\ UNCHANGED state_file_partial

(* check_and_prepare_backup, line 839: the real cleanup *)
Cleanup ==
    /\ pc = "cleanup"
    /\ \E locked \in LockChoices(files, config.keep_cycles) :
       \E r \in {cleanup_old_cycles(files, config.keep_cycles, FALSE, locked)} :
          /\ files' = r.files
          /\ last_cleanup' = [r EXCEPT !.files = {}]
    /\ run' = [run EXCEPT !.cleaned = TRUE]
    /\ pc' = "reassess"
    /\ UNCHANGED <<config, state_file, state, clock, exit_code,
                   attempts, cycles>>
    /\ UNCHANGED <<found_disks, target_disk>>
    /\ UNCHANGED state_file_partial

(* A check that lets the run go on whatever the second assessment says *)
can_start_always(info) == TRUE

(* A check that refuses whatever the second assessment says *)
can_start_never(info) == FALSE

(* What check_and_prepare_backup returns for the second assessment *)
can_start(info) == info.has_enough_space

(* The tuple check_and_prepare_backup returns after a cleanup, lines      *)
(* 839-857; cleanup_stats is the local of line 839.                       *)
check_and_prepare_result(cleanup_stats, disk_info) ==
    IF ~disk_info.has_enough_space
    THEN [can_start |-> FALSE,
          msg |-> <<"Nicht genuegend Speicherplatz nach Cleanup. Frei, Benoetigt:",
                    disk_info.free_bytes, disk_info.required_bytes>>,
          disk_info |-> disk_info]
    ELSE [can_start |-> TRUE, msg |-> <<"OK">>, disk_info |-> disk_info]

(* check_and_prepare_backup, lines 841-857, and main, lines 1227-1230 *)
Reassess ==
    /\ pc = "reassess"
    /\ \E query_ok \in BOOLEAN :
       \E info \in {get_disk_space_info(files, DiskTotal,
                                        config.space_reserve_percent, query_ok)} :
          /\ run' = [run EXCEPT !.info2 = info, !.reassessed = TRUE]
          /\ IF can_start(info)
             THEN pc' = "backup" /\ UNCHANGED exit_code
             ELSE pc' = "exited" /\ exit_code' = 1
    /\ UNCHANGED <<config, files, state_file, state, clock,
                   attempts, last_cleanup, cycles>>
    /\ UNCHANGED <<found_disks, target_disk>>
    /\ UNCHANGED state_file_partial

(* A run_backup that tolerates a missing hash pointer *)
raises_type_error_never(st, backup_type) == FALSE

(* run_backup, line 538: Path(None) raises TypeError *)
raises_type_error(st, backup_type) ==
    backup_type = "differential" /\ st.last_full_hash_file = None

(* run_backup, lines 504-545, up to the blocking call of the imaging tool.  *)
(* A forced differential without a hash pointer raises at line 538 and the  *)
(* process exits through the handler at lines 1272-1276.  auto_type and     *)
(* auto_num are what determine_backup_type gives at this point, also when   *)
(* the type is forced.                                                      *)
InvokeImaging ==
    /\ pc = "backup"
    /\ \E auto_type \in {determine_backup_type(state, files,
                                               config.max_differentials)} :
       \E backup_type \in {IF run.force # "none" THEN run.force ELSE auto_type} :
       \E image_path \in {ImagePath(state, backup_type, clock + 1)} :
          IF raises_type_error(state, backup_type)
          THEN /\ pc' = "exited"
               /\ exit_code' = 1
               /\ run' = [run EXCEPT !.backup_type = backup_type]
          ELSE /\ pc' = "imaging"
               /\ UNCHANGED exit_code
               /\ run' = [run EXCEPT !.backup_type = backup_type,
                            !.invoked = TRUE,
                            !.diff_num = IF backup_type = "full" THEN 0
                                         ELSE state.differential_count + 1,
                            !.auto_type = auto_type,
                            !.auto_num = IF auto_type = "full" THEN 0
                                         ELSE state.differential_count + 1,
                            !.image_path = image_path,
                            !.hash_path = HashPath(state, backup_type, image_path),
                            !.ts = clock + 1]
    /\ clock' = clock + 1
    /\ UNCHANGED <<config, files, state_file, state, attempts,
                   last_cleanup, cycles>>
    /\ UNCHANGED <<found_disks, target_disk>>
    /\ UNCHANGED state_file_partial

(* The files the imaging tool writes: on exit code 0 the image (and for a   *)
(* full backup its .hsh companion); otherwise nothing or a partial image.   *)
Image(r, now, size) ==
    [dir |-> r.image_path.dir, stem |-> r.image_path.stem,
     ext |-> "sna", mtime |-> now, size |-> size]
Written(r, code, leaves, now) ==
    IF code = 0
    THEN IF r.backup_type = "full"
         THEN {Image(r, now, FullSize),
               [dir |-> r.hash_path.dir, stem |-> r.hash_path.stem,
                ext |-> "hsh", mtime |-> now, size |-> HashSize]}
         ELSE {Image(r, now, DiffSize)}
    ELSE IF leaves THEN {Image(r, now, PartialSize)} ELSE {}

Fits(fs, total, new) == UsedBytes(fs \cup new) <= total

(* run_backup, lines 523-601, from the return of the imaging call, and      *)
(* main, lines 1234-1270                                                    *)
ImagingReturn ==
    /\ pc = "imaging"
    /\ \E o \in Outcomes : \E code \in {run_command(o)} : \E leaves \in BOOLEAN :
       \E new \in {Written(run, code, leaves, clock + 1)} :
       \E st \in {AppendHistory(UpdateState(state, run.backup_type, run.image_path,
                                            run.hash_path, code),
                                run.ts, run.backup_type, run.image_path, code)} :
          /\ code = 0 => leaves
          /\ Fits(files, DiskTotal, new)
          /\ files' = files \cup new
          /\ state' = st
          /\ state_file' = st
          /\ state_file_partial' = FALSE
          /\ o.kind = "oserror" => ~leaves
          /\ run' = [run EXCEPT !.ended = o.kind, !.result = BackupResult(code)]
          /\ attempts' = Append(attempts,
                                [auto |-> run.force = "none",
                                 type |-> run.backup_type,
                                 num |-> run.diff_num,
                                 auto_type |-> run.auto_type,
                                 auto_num |-> run.auto_num,
                                 success |-> code = 0,
                                 returned |-> TRUE,
                                 imaged |-> TRUE])
          /\ exit_code' = IF code = 0 THEN 0 ELSE 1
    /\ clock' = clock + 1
    /\ pc' = "exited"
    /\ UNCHANGED <<config, last_cleanup, cycles>>
    /\ UNCHANGED <<found_disks, target_disk>>

(* The process is terminated inside _save_state, lines 464-465, after the   *)
(* imaging call has returned: open(..., "w") has truncated the file and     *)
(* json.dump has written none or only a part of the new record.             *)
KillSaving ==
    /\ pc = "imaging"
    /\ \E o \in Outcomes : \E code \in {run_command(o)} : \E leaves \in BOOLEAN :
       \E new \in {Written(run, code, leaves, clock + 1)} :
       \E st \in {AppendHistory(UpdateState(state, run.backup_type, run.image_path,
                                            run.hash_path, code),
                                run.ts, run.backup_type, run.image_path, code)} :
          /\ code = 0 => leaves
          /\ Fits(files, DiskTotal, new)
          /\ files' = files \cup new
          /\ state' = st
          /\ state_file' = st
          /\ state_file_partial' = TRUE
          /\ o.kind = "oserror" => ~leaves
          /\ run' = [run EXCEPT !.ended = o.kind, !.result = BackupResult(code)]
    /\ attempts' = Append(attempts,
                          [auto |-> run.force = "none", type |-> run.backup_type,
                           num |-> run.diff_num, auto_type |-> run.auto_type,
                           auto_num |-> run.auto_num, success |-> FALSE,
                           returned |-> FALSE, imaged |-> TRUE])
    /\ clock' = clock + 1
    /\ pc' = "exited"
    /\ exit_code' = 1
    /\ UNCHANGED <<config, last_cleanup, cycles>>
    /\ UNCHANGED <<found_disks, target_disk>>

(* The process is terminated while the imaging call is in progress *)
Kill ==
    /\ pc = "imaging"
    /\ \E leaves \in BOOLEAN :
       \E new \in {Written(run, 1, leaves, clock + 1)} :
          /\ Fits(files, DiskTotal, new)
          /\ files' = files \cup new
    /\ clock' = clock + 1
    /\ attempts' = Append(attempts,
                          [auto |-> run.force = "none", type |-> run.backup_type,
                           num |-> run.diff_num, auto_type |-> run.auto_type,
                           auto_num |-> run.auto_num, success |-> FALSE,
                           returned |-> FALSE, imaged |-> FALSE])
    /\ pc' = "exited"
    /\ exit_code' = 1
    /\ UNCHANGED <<config, state_file, state, run, last_cleanup, cycles>>
    /\ UNCHANGED <<found_disks, target_disk>>
    /\ UNCHANGED state_file_partial

(* The process is gone: its memory is discarded and the exit status has    *)
(* been read; the next invocation starts from the files and the persisted  *)
(* state alone.                                                            *)
Terminate ==
    /\ pc = "exited"
    /\ pc' = "idle"
    /\ run' = NoRun
    /\ state' = BackupState
    /\ exit_code' = 0
    /\ last_cleanup' = NoCleanup
    /\ cycles' = <<>>
    /\ UNCHANGED <<config, files, state_file, clock, attempts>>
    /\ found_disks' = <<>>
    /\ target_disk' = NoDisk
    /\ UNCHANGED state_file_partial

Next ==
    \/ ScanDisks
    \/ NoDiskFound
    \/ Status
    \/ CleanupMode
    \/ DryRun
    \/ StartBackup
    \/ Assess
    \/ Cleanup
    \/ Reassess
    \/ InvokeImaging
    \/ ImagingReturn
    \/ Kill
    \/ Terminate

Spec == Init /\ [][Next]_vars

----------------------------------------------------------------------------
(* Reconstruction on an arbitrary archive: the target directory holds up   *)
(* to DirFulls full images and DirDiffs differential images with           *)
(* timestamps in 1..DirTime.  A name's date token is the start of the      *)
(* imaging call and so never later than the file's mtime; a renamed full   *)
(* image (NoTok) has lost its companion; no two full backups started in    *)
(* the same tick.                                                          *)

(* A choice m of mtimes per name, 0 for "no such file" *)
FullFiles(m) ==
    {[dir |-> "full", stem |-> FullName(tok), ext |-> "sna", mtime |-> m[tok],
      size |-> FullSize] : tok \in {t \in 0..DirTime : m[t] # 0}}
HashFiles(m) ==
    {[dir |-> "full", stem |-> FullName(tok), ext |-> "hsh", mtime |-> m[tok],
      size |-> HashSize] : tok \in {t \in 1..DirTime : m[t] # 0}}
DiffFiles(m) ==
    {[dir |-> "differential", stem |-> DiffName(n, n), ext |-> "sna",
      mtime |-> m[n], size |-> DiffSize] : n \in {k \in 1..DirDiffs : m[k] # 0}}

Directories ==
    {FullFiles(fu) \cup HashFiles(fu) \cup DiffFiles(df) :
        fu \in {m \in [0..DirTime -> 0..DirTime] :
                  /\ Cardinality({t \in 0..DirTime : m[t] # 0}) <= DirFulls
                  /\ \A t \in 0..DirTime : m[t] # 0 => t <= m[t]
                  /\ \A t \in 1..DirTime : m[t] # 0 /\ m[0] # 0 => m[0] # t},
        df \in {m \in [1..DirDiffs -> 0..DirTime] :
                  \A n \in 1..DirDiffs : m[n] # 0 => n <= m[n]}}

InitCycles ==
    /\ config = [max_differentials |-> 1, keep_cycles |-> 1,
                 space_reserve_percent |-> ReservePercent]
    /\ files \in Directories
    /\ state_file = BackupState
    /\ state_file_partial = FALSE
    /\ state = BackupState
    /\ clock = DirTime
    /\ pc = "idle"
    /\ run = NoRun
    /\ exit_code = 0
    /\ attempts = <<>>
    /\ last_cleanup = NoCleanup
    /\ cycles = <<>>
    /\ found_disks = <<>>
    /\ target_disk = NoDisk

NextCycles == Status

SpecCycles == InitCycles /\ [][NextCycles]_vars

----------------------------------------------------------------------------
(* The space check on an arbitrary volume: up to two full images of sizes  *)
(* 1..MaxSize, and other data on the volume that leaves either plenty of   *)
(* room, about the 50 GB default, or only a few units.  The reserve        *)
(* percentages are the multiples of 25, for which 1 + percent / 100 and    *)
(* its product with a size are exact in binary floating point, so that     *)
(* int() of line 729 is the integer quotient rounded down.                 *)

OtherSizes ==
    {0} \cup {DiskTotal - DefaultRequired + d : d \in {-1, 0, 1}}
        \cup {DiskTotal - k : k \in (2 * MaxSize)..(3 * MaxSize)}

SpaceFiles(s1, s2, o) ==
    {[dir |-> "full", stem |-> FullName(tok), ext |-> "sna", mtime |-> tok,
      size |-> IF tok = 1 THEN s1 ELSE s2] :
        tok \in {t \in {1, 2} : (IF t = 1 THEN s1 ELSE s2) # 0}}
    \cup (IF o = 0 THEN {}
          ELSE {[dir |-> "other", stem |-> [kind |-> "other", tok |-> NoTok,
                                            num |-> 0],
                 ext |-> "dat", mtime |-> 1, size |-> o]})

Volumes ==
    {SpaceFiles(s1, s2, o) : s1 \in 0..MaxSize, s2 \in 0..MaxSize,
                             o \in {x \in OtherSizes : x >= 0}}

InitSpace ==
    /\ config \in [max_differentials : {1}, keep_cycles : {1},
                   space_reserve_percent : {25 * q : q \in 0..MaxQuarters}]
    /\ files \in {v \in Volumes : UsedBytes(v) <= DiskTotal}
    /\ state_file = BackupState
    /\ state_file_partial = FALSE
    /\ state = BackupState
    /\ clock = 0
    /\ pc = "idle"
    /\ run = NoRun
    /\ exit_code = 0
    /\ attempts = <<>>
    /\ last_cleanup = NoCleanup
    /\ cycles = <<>>
    /\ found_disks = <<>>
    /\ target_disk = NoDisk

NextSpace ==
    \/ StartBackup
    \/ Assess
    \/ Cleanup
    \/ Reassess

SpecSpace == InitSpace /\ [][NextSpace]_vars

----------------------------------------------------------------------------
(* The choice of the target disk on an arbitrary scan result: up to        *)
(* MaxDisks disks, told apart by their ids, with free_bytes in 0..MaxFree  *)
(* (0 also stands for a disk whose usage could not be read, line 207).     *)

RECURSIVE ListsUpTo(_)
ListsUpTo(n) ==
    IF n = 0 THEN {<<>>}
    ELSE ListsUpTo(n - 1)
         \cup {[i \in 1..n |-> [disk_id |-> i, total_bytes |-> MaxFree,
                               free_bytes |-> f[i]]] :
               f \in [1..n -> 0..MaxFree]}

DiskLists == ListsUpTo(MaxDisks)

(* main, lines 1158-1167, with the scan finding any of DiskLists *)
ScanAndSelect ==
    /\ pc = "idle"
    /\ \E disks \in DiskLists :
          /\ SelectDisk(disks)
          /\ exit_code' = IF disks = <<>> THEN 1 ELSE 0
    /\ run' = [NoRun EXCEPT !.mode = "backup"]
    /\ pc' = "exited"
    /\ UNCHANGED <<config, files, state_file, state, clock, attempts,
                   last_cleanup, cycles>>
    /\ UNCHANGED state_file_partial

NextDisks == ScanAndSelect

SpecDisks == Init /\ [][NextDisks]_vars

----------------------------------------------------------------------------
(* Backup runs in which the process may also be terminated while it writes *)
(* backup_state.json.  Spec is the program on a machine where that never   *)
(* happens; here it may, and a status call reads the file back.            *)

InitSave ==
    /\ Init
    /\ config = [max_differentials |-> 1, keep_cycles |-> 1,
                 space_reserve_percent |-> ReservePercent]

NextSave ==
    \/ Status
    \/ StartBackup
    \/ Assess
    \/ Cleanup
    \/ Reassess
    \/ InvokeImaging
    \/ ImagingReturn
    \/ Kill
    \/ KillSaving
    \/ Terminate

SpecSave == InitSave /\ [][NextSave]_vars

----------------------------------------------------------------------------
(* Retention on an archive of split images: up to DirFulls full images,    *)
(* started at the odd ticks, each alone, with its companion, or with its   *)
(* companion and a second segment (.sn1); up to DirDiffs differentials,    *)
(* each with a second segment, finished at one of the even ticks.  A       *)
(* segment has the size of a differential image.                           *)

SplitFull(k, shape) ==
    {[dir |-> "full", stem |-> FullName(2 * k - 1), ext |-> e,
      mtime |-> 2 * k - 1,
      size |-> IF e = "sna" THEN FullSize
               ELSE IF e = "hsh" THEN HashSize ELSE DiffSize] :
     e \in (IF shape = 0 THEN {}
            ELSE IF shape = 1 THEN {"sna"}
            ELSE IF shape = 2 THEN {"sna", "hsh"}
            ELSE {"sna", "hsh", "sn1"})}

SplitDiff(n, m) ==
    IF m = 0 THEN {}
    ELSE {[dir |-> "differential", stem |-> DiffName(2 * m - 1, n), ext |-> e,
           mtime |-> 2 * m, size |-> IF e = "sna" THEN DiffSize ELSE DiffSize] :
          e \in {"sna", "sn1"}}

SplitDirectories ==
    {UNION {SplitFull(k, fu[k]) : k \in 1..DirFulls}
       \cup UNION {SplitDiff(n, df[n]) : n \in 1..DirDiffs} :
     fu \in [1..DirFulls -> 0..3], df \in [1..DirDiffs -> 0..DirFulls]}

InitSplit ==
    /\ config = [max_differentials |-> 1, keep_cycles |-> 1,
                 space_reserve_percent |-> ReservePercent]
    /\ files \in {v \in SplitDirectories : UsedBytes(v) <= DiskTotal}
    /\ state_file = BackupState
    /\ state_file_partial = FALSE
    /\ state = BackupState
    /\ clock = 2 * DirFulls
    /\ pc = "idle"
    /\ run = NoRun
    /\ exit_code = 0
    /\ attempts = <<>>
    /\ last_cleanup = NoCleanup
    /\ cycles = <<>>
    /\ found_disks = <<>>
    /\ target_disk = NoDisk

NextSplit == CleanupMode

SpecSplit == InitSplit /\ [][NextSplit]_vars

----------------------------------------------------------------------------
(* Properties *)

Last(s) == s[Len(s)]

(* C1: for every number N of reconstructed cycles and keep-count K >= 0,   *)
(* cleanup_old_cycles keeps exactly min(N, K) cycles, the most recent      *)
(* ones, condemns exactly max(0, N - K), the oldest ones, and kept plus    *)
(* deleted is N.                                                           *)
C1_RetentionCounts ==
    last_cleanup.called =>
        LET N == Len(last_cleanup.cycles)
            K == config.keep_cycles
        IN  /\ last_cleanup.stats.total_cycles = N
            /\ last_cleanup.stats.kept_cycles = Min(N, K)
            /\ last_cleanup.stats.deleted_cycles = Max(0, N - K)
            /\ last_cleanup.stats.kept_cycles
                 + last_cleanup.stats.deleted_cycles = N
            /\ last_cleanup.to_keep
                 = SubSeq(last_cleanup.cycles, N - Min(N, K) + 1, N)
            /\ last_cleanup.to_delete
                 = SubSeq(last_cleanup.cycles, 1, Max(0, N - K))

(* The files of the active chain: the full image and the companion the     *)
(* persisted state points to, and the differentials written successfully   *)
(* since that full backup.                                                 *)
LastFullIndex(st) ==
    CHOOSE i \in 1..Len(st.backups) :
        /\ st.backups[i].type = "full" /\ st.backups[i].success
        /\ \A j \in (i + 1)..Len(st.backups) :
              ~(st.backups[j].type = "full" /\ st.backups[j].success)
DiffsSince(st, from) ==
    {st.backups[i].file : i \in {j \in (from + 1)..Len(st.backups) :
                                    /\ st.backups[j].type = "differential"
                                    /\ st.backups[j].success}}
ActiveChain(st) ==
    IF st.last_full_backup = None THEN {}
    ELSE {st.last_full_backup, st.last_full_hash_file}
         \cup DiffsSince(st, LastFullIndex(st))

(* C2: after any sequence of runs (successful, failed or killed) and       *)
(* cleanups, every file of the active chain is still on disk.              *)
C2_ActiveChainOnDisk ==
    \A p \in ActiveChain(state_file) : Exists(files, p)

(* C3: in a backup run, if free space is below the required bytes at the   *)
(* assessment that follows the cleanup, the imaging tool is not invoked in *)
(* that run and the process has ended with a non-zero exit.                *)
C3_NoImagingWhenLow ==
    (run.mode = "backup" /\ run.reassessed
       /\ run.info2.free_bytes < run.info2.required_bytes)
    => (~run.invoked /\ pc = "exited" /\ exit_code # 0)

C3_Witness ==
    /\ run.mode = "backup" /\ run.force = "none"
    /\ run.cleaned /\ run.reassessed
    /\ run.info2.free_bytes < run.info2.required_bytes
    /\ pc = "exited"

(* Every imaging call so far was made by an automatic run and returned 0 *)
AllAutoOk ==
    \A i \in 1..Len(attempts) :
        attempts[i].auto /\ attempts[i].success /\ attempts[i].returned

(* C4: from the empty state, while every attempt is automatic and          *)
(* succeeds, the n-th decision is FULL when n - 1 is a multiple of         *)
(* max_differentials + 1 and otherwise DIFFERENTIAL with sequence number   *)
(* (n - 1) mod (max_differentials + 1); the persisted count follows it and *)
(* the last-full pointer is set after the first run.                       *)
C4_DecisionSequence ==
    AllAutoOk =>
        /\ \A i \in 1..Len(attempts) :
              LET r == (i - 1) % (config.max_differentials + 1)
              IN  IF r = 0
                  THEN attempts[i].type = "full" /\ attempts[i].num = 0
                  ELSE attempts[i].type = "differential" /\ attempts[i].num = r
        /\ Len(attempts) >= 1 =>
              /\ state_file.last_full_backup # None
              /\ state_file.differential_count
                   = (Len(attempts) - 1) % (config.max_differentials + 1)
        /\ (pc = "imaging" /\ run.force = "none") =>
              LET r == Len(attempts) % (config.max_differentials + 1)
              IN  /\ run.backup_type = (IF r = 0 THEN "full" ELSE "differential")
                  /\ run.diff_num = r

C4_Witness ==
    /\ AllAutoOk
    /\ Len(attempts) = 3
    /\ attempts[1].type = "full"
    /\ attempts[2].type = "differential" /\ attempts[2].num = 1
    /\ attempts[3].type = "full"

(* C5: when the imaging call of a FULL or DIFFERENTIAL attempt returns a   *)
(* non-zero code, run_backup leaves both pointers and the count unchanged  *)
(* and appends one history entry with success = false; and the next        *)
(* automatic run decides what an automatic run would have decided at the   *)
(* failed attempt, with the same sequence number.                          *)
C5_FailureKeepsChain ==
    [][
        /\ (pc = "imaging" /\ Len(attempts') = Len(attempts) + 1
              /\ Last(attempts').returned /\ ~Last(attempts').success)
           => /\ state_file'.last_full_backup = state_file.last_full_backup
              /\ state_file'.last_full_hash_file = state_file.last_full_hash_file
              /\ state_file'.differential_count = state_file.differential_count
              /\ Len(state_file'.backups) = Len(state_file.backups) + 1
              /\ ~Last(state_file'.backups).success
        /\ (pc = "backup" /\ pc' = "imaging" /\ run.force = "none"
              /\ attempts # <<>>
              /\ Last(attempts).returned /\ ~Last(attempts).success)
           => /\ run'.backup_type = Last(attempts).auto_type
              /\ run'.diff_num = Last(attempts).auto_num
    ]_vars

(* C6: differential_count never exceeds max_differential_backups, whether  *)
(* the runs are automatic or forced, succeed or fail.                      *)
C6_CountWithinMax ==
    /\ state.differential_count <= config.max_differentials
    /\ state_file.differential_count <= config.max_differentials

(* C7: differential_count is 0 whenever last_full_backup is unset, whether *)
(* the runs are automatic or forced, succeed or fail.                      *)
C7_NoFullNoCount ==
    /\ state.last_full_backup = None => state.differential_count = 0
    /\ state_file.last_full_backup = None => state_file.differential_count = 0

(* A forced differential was tried on a state with no full backup *)
C7_Witness ==
    /\ run.mode = "backup" /\ run.force = "differential"
    /\ run.backup_type = "differential"
    /\ pc = "exited" /\ exit_code = 1
    /\ ~run.invoked
    /\ state_file.last_full_backup = None

DiffPaths == SeqToSet(GlobKind(files, "differential", "diff"))
MTime(p) == Stat(files, p).mtime
Owners(d) == {i \in 1..Len(cycles) : d \in SeqToSet(cycles[i].differentials)}

(* C8: get_backup_cycles places every differential of the differential     *)
(* directory in the list of exactly one cycle, never two and never none    *)
(* (a differential older than every full backup has no interval to fall    *)
(* in and is left out of the statement).                                   *)
C8_ExactlyOneCycle ==
    run.mode = "status" =>
        \A d \in DiffPaths :
            (\E i \in 1..Len(cycles) : cycles[i].timestamp <= MTime(d))
            => Cardinality(Owners(d)) = 1

(* C9: every differential of a returned cycle has an mtime >= the cycle's  *)
(* timestamp and < the timestamp of the next full backup: no other cycle   *)
(* starts after this one and at or before the differential.                *)
C9_IntervalMembership ==
    run.mode = "status" =>
        \A i \in 1..Len(cycles) : \A d \in SeqToSet(cycles[i].differentials) :
            /\ MTime(d) >= cycles[i].timestamp
            /\ ~ \E j \in 1..Len(cycles) :
                    /\ cycles[i].timestamp < cycles[j].timestamp
                    /\ cycles[j].timestamp <= MTime(d)

(* A differential's mtime equals the timestamp of cycle j and an earlier   *)
(* cycle i exists                                                          *)
Tie(d, i, j) ==
    /\ cycles[i].timestamp < cycles[j].timestamp
    /\ MTime(d) = cycles[j].timestamp

(* C10 as stated: at a tie the differential goes to the earlier cycle F    *)
(* and not to the later cycle G.                                           *)
C10_TieToEarlier ==
    run.mode = "status" =>
        \A d \in DiffPaths : \A i, j \in 1..Len(cycles) :
            Tie(d, i, j) => (i \in Owners(d) /\ j \notin Owners(d))

(* C10, amended: a differential whose mtime equals the timestamp of a full *)
(* backup G is placed in the cycle of G (the lower bound of a cycle's      *)
(* interval is inclusive), whether or not an earlier full backup exists.   *)
C10_TieToLater ==
    run.mode = "status" =>
        \A d \in DiffPaths : \A j \in 1..Len(cycles) :
            MTime(d) = cycles[j].timestamp => j \in Owners(d)

C10_Witness ==
    /\ run.mode = "status"
    /\ \E d \in DiffPaths : \E i, j \in 1..Len(cycles) :
          Tie(d, i, j) /\ j \in Owners(d) /\ i \notin Owners(d)

(* A step in which cleanup_old_cycles ran and returned *)
CleanupReturns ==
    /\ pc \in {"idle", "cleanup"}
    /\ last_cleanup'.called

(* C11: on every directory and keep-count, the freed_bytes a real cleanup   *)
(* reports when no deletion fails is the number of bytes it takes off the   *)
(* volume, and is the freed_bytes the dry run reports on that directory.    *)
C11_DryRunMatchesReal ==
    [][
        (CleanupReturns /\ ~last_cleanup'.dry_run
           /\ last_cleanup'.stats.errors = <<>>)
        => /\ last_cleanup'.stats.freed_bytes = UsedBytes(files) - UsedBytes(files')
           /\ last_cleanup'.stats.freed_bytes
                = cleanup_old_cycles(files, config.keep_cycles, TRUE, {})
                    .stats.freed_bytes
    ]_vars

(* C12: a dry-run cleanup leaves the files on the target and the persisted *)
(* state as they were, whatever the number of cycles and the keep-count,   *)
(* and reports deleted_files = 0.                                          *)
C12_DryRunTouchesNothing ==
    [][
        (CleanupReturns /\ last_cleanup'.dry_run)
        => /\ files' = files
           /\ state_file' = state_file
           /\ last_cleanup'.stats.deleted_files = 0
    ]_vars

C12_Witness ==
    /\ last_cleanup.called /\ last_cleanup.dry_run
    /\ last_cleanup.stats.deleted_cycles > 0
    /\ last_cleanup.stats.freed_bytes > 0
    /\ files # {}

(* The companion file the state refers to is there *)
CompanionOnDisk(st, fs) ==
    /\ st.last_full_backup # None
    /\ st.last_full_hash_file # None
    /\ Exists(fs, st.last_full_hash_file)

(* C13: an automatic run decides FULL when last_full_backup is unset or    *)
(* the companion file it refers to is not on disk, FULL when the companion *)
(* is there and differential_count >= max_differentials, and DIFFERENTIAL  *)
(* otherwise; the DIFFERENTIAL attempt then uses the companion of the      *)
(* current last full backup and sequence number differential_count + 1.    *)
C13_DecisionTable ==
    [][
        (pc = "backup" /\ pc' = "imaging" /\ run.force = "none")
        => /\ ~CompanionOnDisk(state, files) => run'.backup_type = "full"
           /\ (CompanionOnDisk(state, files)
                 /\ state.differential_count >= config.max_differentials)
              => run'.backup_type = "full"
           /\ (CompanionOnDisk(state, files)
                 /\ state.differential_count < config.max_differentials)
              => /\ run'.backup_type = "differential"
                 /\ run'.hash_path = state.last_full_hash_file
                 /\ run'.hash_path = WithSuffix(state.last_full_backup, "hsh")
                 /\ run'.diff_num = state.differential_count + 1
                 /\ run'.image_path.stem.num = state.differential_count + 1
    ]_vars

(* An automatic run decided FULL because the companion was gone, with the  *)
(* chain not yet exhausted                                                 *)
C13_Witness ==
    /\ pc = "imaging" /\ run.force = "none" /\ run.backup_type = "full"
    /\ state.last_full_backup # None
    /\ ~Exists(files, state.last_full_hash_file)
    /\ state.differential_count < config.max_differentials

(* C14: after an attempt that returned exit code 0, a FULL has set         *)
(* differential_count to 0 and both last-full pointers to the new image    *)
(* and its companion; a DIFFERENTIAL has set differential_count to the     *)
(* sequence number just written and left both pointers unchanged.          *)
C14_SuccessUpdate ==
    [][
        (pc = "imaging" /\ Len(attempts') = Len(attempts) + 1
           /\ Last(attempts').success)
        => IF run.backup_type = "full"
           THEN /\ state_file'.differential_count = 0
                /\ state_file'.last_full_backup = run.image_path
                /\ state_file'.last_full_hash_file
                     = WithSuffix(run.image_path, "hsh")
                /\ state_file'.last_full_backup.stem = FullName(run.ts)
           ELSE /\ state_file'.differential_count = run.image_path.stem.num
                /\ state_file'.differential_count
                     = state_file.differential_count + 1
                /\ state_file'.last_full_backup = state_file.last_full_backup
                /\ state_file'.last_full_hash_file
                     = state_file.last_full_hash_file
    ]_vars

C14_Witness ==
    /\ pc = "exited" /\ Len(attempts) >= 2
    /\ Last(attempts).success /\ Last(attempts).type = "differential"
    /\ state_file.differential_count = Last(attempts).num
    /\ attempts[1].success /\ attempts[1].type = "full"

(* The assessments the current run has made *)
Assessments ==
    (IF run.assessed THEN {run.info1} ELSE {})
    \cup (IF run.reassessed THEN {run.info2} ELSE {})

CeilDiv(a, b) == (a + b - 1) \div b

(* C15: for every last_cycle_size > 0 and every integer reserve percent    *)
(* >= 0 the assessment returns required_bytes = ceil(last_cycle_size *     *)
(* (100 + percent) / 100): a fractional byte is rounded up.                *)
C15_RequiredIsCeiling ==
    \A info \in Assessments :
        info.last_cycle_size_bytes > 0
        => info.required_bytes
             = CeilDiv(info.last_cycle_size_bytes
                         * (100 + config.space_reserve_percent), 100)

(* C16: with no prior cycle on the target the assessment requires the 50   *)
(* GB default, so a first backup is refused whenever less than that is     *)
(* free; and no assessment that reports enough space has required_bytes 0. *)
C16_DefaultFloor ==
    /\ \A info \in Assessments :
          /\ (info # NoInfo /\ info.last_cycle_size_bytes = 0)
             => /\ info.required_bytes = DefaultRequired
                /\ info.free_bytes < DefaultRequired => ~info.has_enough_space
          /\ info.has_enough_space => info.required_bytes > 0
    /\ (run.reassessed /\ run.info2 # NoInfo
          /\ run.info2.last_cycle_size_bytes = 0
          /\ run.info2.free_bytes < DefaultRequired)
       => (~run.invoked /\ pc = "exited" /\ exit_code = 1)

C16_Witness ==
    /\ run.reassessed /\ run.info2 # NoInfo
    /\ get_backup_cycles(files) = <<>>
    /\ run.info2.required_bytes = DefaultRequired
    /\ run.info2.free_bytes = DefaultRequired - 1
    /\ pc = "exited" /\ exit_code = 1

(* C17 as stated: every DiskSpaceInfo the assessment returns, the one of a *)
(* failed free-space query included, has has_enough_space true exactly     *)
(* when free_bytes >= required_bytes.                                      *)
C17_SufficientIffCovered ==
    \A info \in Assessments :
        info.has_enough_space <=> (info.free_bytes >= info.required_bytes)

(* C17, amended: a DiskSpaceInfo returned after a successful free-space    *)
(* query has has_enough_space true exactly when free_bytes >=              *)
(* required_bytes; the one returned when the query fails has all sizes 0   *)
(* and has_enough_space false.                                             *)
C17_SufficientIffCoveredOrFailed ==
    \A info \in Assessments :
        IF info.total_bytes = 0
        THEN info = NoInfo /\ ~info.has_enough_space
        ELSE info.has_enough_space <=> (info.free_bytes >= info.required_bytes)

(* One run saw the query fail and then an assessment that fell short *)
C17_Witness ==
    /\ run.assessed /\ run.info1 = NoInfo
    /\ run.reassessed /\ run.info2 # NoInfo
    /\ run.info2.last_cycle_size_bytes > 0
    /\ run.info2.free_bytes < run.info2.required_bytes
    /\ ~run.info2.has_enough_space

(* The statistics of the other case: a cleanup that deleted nothing for    *)
(* one that deleted cycles, and the reverse                                *)
OtherCase(stats) ==
    IF stats.deleted_cycles = 0
    THEN [stats EXCEPT !.deleted_cycles = 1, !.kept_cycles = @ - 1,
                       !.deleted_files = 1, !.freed_bytes = 1]
    ELSE [stats EXCEPT !.deleted_cycles = 0, !.kept_cycles = stats.total_cycles,
                       !.deleted_files = 0, !.freed_bytes = 0]

(* C18: when a run is refused for lack of space, what                      *)
(* check_and_prepare_backup returns tells "no cycle could be deleted"      *)
(* from "cycles were deleted but not enough was reclaimed": with the same  *)
(* space figures the two cases give different results.                     *)
C18_RefusalTellsCasesApart ==
    (run.mode = "backup" /\ run.reassessed /\ pc = "exited" /\ exit_code = 1
       /\ last_cleanup.called)
    => check_and_prepare_result(last_cleanup.stats, run.info2)
         # check_and_prepare_result(OtherCase(last_cleanup.stats), run.info2)

(* The files of the cycles the last cleanup condemned *)
CondemnedPaths ==
    UNION {{c.full_backup, WithSuffix(c.full_backup, "hsh")}
             \cup SeqToSet(c.differentials) :
           c \in SeqToSet(last_cleanup.to_delete)}

(* C19: in a real cleanup a file that cannot be deleted is recorded in     *)
(* errors and deletion goes on: every other file of the condemned cycles   *)
(* is gone afterwards; and the run goes on to the backup when the          *)
(* assessment after the cleanup finds enough space, errors or not.         *)
C19_ErrorsDoNotStopCleanup ==
    /\ [](
          (last_cleanup.called /\ ~last_cleanup.dry_run)
          => /\ \A p \in CondemnedPaths :
                   Exists(files, p) => p \in SeqToSet(last_cleanup.stats.errors)
             /\ \A p \in SeqToSet(last_cleanup.stats.errors) :
                   p \in CondemnedPaths /\ Exists(files, p)
       )
    /\ [][
          (pc = "reassess" /\ run'.info2.has_enough_space) => pc' = "backup"
       ]_vars

C19_Witness ==
    /\ last_cleanup.called /\ ~last_cleanup.dry_run
    /\ last_cleanup.stats.errors # <<>>
    /\ last_cleanup.stats.deleted_files > 0
    /\ run.cleaned /\ run.reassessed /\ run.info2.has_enough_space
    /\ pc = "backup"

(* C20: select_best_disk returns none for an empty list and otherwise a   *)
(* member of the list whose free_bytes is >= that of every other          *)
(* candidate, the first such one on ties.                                 *)
C20_BestDisk ==
    (pc = "exited" /\ run.mode = "backup")
    => IF found_disks = <<>>
       THEN target_disk = NoDisk
       ELSE \E i \in 1..Len(found_disks) :
               /\ target_disk = found_disks[i]
               /\ \A j \in 1..Len(found_disks) :
                     found_disks[j].free_bytes <= found_disks[i].free_bytes
               /\ \A j \in 1..(i - 1) :
                     found_disks[j].free_bytes < found_disks[i].free_bytes

(* A scan with two disks tied for the most free space, behind a smaller one *)
C20_Witness ==
    /\ pc = "exited" /\ Len(found_disks) = 3
    /\ found_disks[1].free_bytes < found_disks[2].free_bytes
    /\ found_disks[2].free_bytes = found_disks[3].free_bytes
    /\ target_disk = found_disks[2]


(* C21: when the scan finds no volume with a configured disk id, a backup  *)
(* run ends with a non-zero exit without invoking the imaging tool,        *)
(* deleting a file or writing the state; a scan-only invocation ends with  *)
(* exit status 0.                                                          *)
C21_NoDiskIsFatalForBackup ==
    [][
        /\ (pc = "idle" /\ run'.mode = "backup" /\ found_disks' = <<>>)
           => /\ pc' = "exited" /\ exit_code' # 0
              /\ ~run'.invoked /\ attempts' = attempts
              /\ files' = files
              /\ state_file' = state_file
              /\ ~last_cleanup'.called
        /\ (pc = "idle" /\ run'.mode = "scan")
           => /\ pc' = "exited" /\ exit_code' = 0
              /\ files' = files /\ state_file' = state_file
    ]_vars

(* A backup run found no disk while the volume, wherever it is, holds a    *)
(* chain and a persisted state                                             *)
C21_Witness ==
    /\ pc = "exited" /\ run.mode = "backup" /\ found_disks = <<>>
    /\ exit_code = 1
    /\ files # {} /\ state_file.last_full_backup # None


(* C22: when the process is terminated while the imaging call is in        *)
(* progress, the persisted state is the one the last completed run wrote   *)
(* (pointers, count and history unchanged), and the next automatic run     *)
(* decides what an automatic run would have decided at the killed attempt, *)
(* with the same sequence number.                                          *)
C22_KillKeepsState ==
    [][
        /\ (pc = "imaging" /\ Len(attempts') = Len(attempts) + 1
              /\ ~Last(attempts').imaged)
           => /\ state_file' = state_file
              /\ state_file_partial' = state_file_partial
        /\ (pc = "backup" /\ pc' = "imaging" /\ run.force = "none"
              /\ attempts # <<>> /\ ~Last(attempts).imaged)
           => /\ run'.backup_type = Last(attempts).auto_type
              /\ run'.diff_num = Last(attempts).auto_num
    ]_vars


IsPrefix(a, b) == Len(a) <= Len(b) /\ SubSeq(b, 1, Len(a)) = a

(* The history a run starting now would load *)
PersistedHistory == load_state(state_file, state_file_partial).backups

(* C23: the history of the persisted state is append-only across runs:     *)
(* every run_backup that comes back from the imaging call appends exactly  *)
(* one entry, on success and on failure alike; no entry is ever changed,   *)
(* reordered or removed, and the length never decreases.                   *)
C23_HistoryAppendOnly ==
    [][
        /\ IsPrefix(PersistedHistory, PersistedHistory')
        /\ (pc = "imaging" /\ pc' = "exited" /\ run'.result.made
              /\ ~state_file_partial')
           => /\ Len(state_file'.backups) = Len(state'.backups)
              /\ state'.backups
                   = Append(state.backups,
                            [timestamp |-> run.ts, type |-> run.backup_type,
                             file |-> run.image_path,
                             success |-> run'.result.success])
    ]_vars


(* A step in which a process reads backup_state.json (BackupManager's      *)
(* constructor, line 441)                                                  *)
ReadsState ==
    /\ pc = "idle" /\ pc' # "idle"
    /\ run'.mode \in {"status", "cleanup", "dry_run", "backup"}
    /\ found_disks' # <<>>

(* C30: backup_state.json is written at most once per run, at its end, and *)
(* a reader (a later run, or the run after a kill during the write) never  *)
(* finds a partially written record: it reads the complete record last     *)
(* written.                                                                *)
C30_AtomicStateWrite ==
    [][
        /\ (state_file' # state_file \/ state_file_partial' # state_file_partial)
           => (pc = "imaging" /\ pc' = "exited")
        /\ ReadsState => (~state_file_partial /\ state' = state_file)
    ]_vars


C25_TimeoutIsFailedAttempt ==
    [][
        (pc = "imaging" /\ run'.ended \in {"timeout", "oserror"}
           /\ ~state_file_partial')
        => /\ run'.result.made
           /\ ~run'.result.success /\ run'.result.exit_code < 0
           /\ state_file'.backups
                = Append(state_file.backups,
                         [timestamp |-> run.ts, type |-> run.backup_type,
                          file |-> run.image_path, success |-> FALSE])
           /\ state_file'.last_full_backup = state_file.last_full_backup
           /\ state_file'.last_full_hash_file = state_file.last_full_hash_file
           /\ state_file'.differential_count = state_file.differential_count
           /\ pc' = "exited" /\ exit_code' # 0
    ]_vars

(* A differential attempt timed out, leaving a partial image, in a chain   *)
(* with a full backup                                                      *)
C25_Witness ==
    /\ pc = "exited" /\ run.ended = "timeout"
    /\ run.backup_type = "differential"
    /\ Exists(files, run.image_path)
    /\ state_file.last_full_backup # None
    /\ ~Last(state_file.backups).success
    /\ exit_code = 1


(* C26: check_and_prepare_backup first assesses; only when that finds too  *)
(* little space does it run a cleanup, exactly one and a real one; then it *)
(* assesses again, and that second result alone decides whether the        *)
(* imaging step may start.                                                 *)
C26_AssessCleanupReassess ==
    /\ [](
          (run.mode = "backup")
          => /\ run.cleaned => (run.assessed /\ ~run.info1.has_enough_space
                                  /\ last_cleanup.called /\ ~last_cleanup.dry_run)
             /\ (run.assessed /\ run.info1.has_enough_space)
                => (~run.cleaned /\ ~run.reassessed /\ ~last_cleanup.called)
             /\ run.reassessed => run.cleaned
             /\ pc = "cleanup" => (run.assessed /\ ~run.cleaned)
             /\ pc = "reassess" => (run.cleaned /\ ~run.reassessed)
             /\ pc \in {"backup", "imaging"}
                => /\ run.assessed
                   /\ IF run.reassessed THEN run.info2.has_enough_space
                      ELSE run.info1.has_enough_space
       )
    /\ [][
          /\ (pc = "check") => (run'.assessed /\ ~run.assessed
                                  /\ files' = files /\ ~run'.cleaned)
          /\ (pc = "cleanup") => (pc' = "reassess" /\ last_cleanup'.called)
          /\ (pc = "reassess")
             => /\ files' = files /\ last_cleanup' = last_cleanup
                /\ pc' = (IF run'.info2.has_enough_space THEN "backup" ELSE "exited")
       ]_vars

(* The first assessment measured too little space, the cleanup freed some, *)
(* the second assessment found enough and the imaging tool was called      *)
C26_Witness ==
    /\ run.mode = "backup" /\ run.invoked
    /\ run.assessed /\ run.info1 # NoInfo /\ ~run.info1.has_enough_space
    /\ run.cleaned /\ last_cleanup.stats.deleted_files > 0
    /\ run.reassessed /\ run.info2.has_enough_space


(* The paths of the physical files of a cycle: the full image and every    *)
(* file of its stem, the companion, each differential and every file of    *)
(* its stem                                                                *)
PhysicalPaths(c) ==
    {PathOf(f) : f \in {g \in files :
        \/ g.dir = c.full_backup.dir /\ g.stem = c.full_backup.stem
        \/ PathOf(g) = c.hash_file
        \/ \E d \in SeqToSet(c.differentials) : g.dir = d.dir /\ g.stem = d.stem}}

(* C27: total_size_bytes of every reconstructed cycle is the sum of the    *)
(* sizes of its full image and split files, its companion if present and   *)
(* its differentials with their split files, each physical file counted    *)
(* exactly once.                                                           *)
C27_TotalCountsEachFileOnce ==
    run.mode = "status" =>
        \A i \in 1..Len(cycles) :
            cycles[i].total_size_bytes
              = SumSizes(files, Sorted(PhysicalPaths(cycles[i])))


(* The directory and stem of every full image and differential of cs *)
StemsOf(cs) ==
    UNION {{<<c.full_backup.dir, c.full_backup.stem>>}
             \cup {<<d.dir, d.stem>> : d \in SeqToSet(c.differentials)} :
           c \in SeqToSet(cs)}

(* C28: after a real cleanup that records no error, no file with the stem  *)
(* of a condemned cycle's full image or of one of its differentials        *)
(* (primary file, segments, companion) is left on disk, and no file whose  *)
(* stem belongs to a kept cycle only has been deleted.                     *)
C28_WholeArtifactsDeleted ==
    [][
        (CleanupReturns /\ ~last_cleanup'.dry_run
           /\ last_cleanup'.stats.errors = <<>>)
        => /\ \A f \in files' :
                 <<f.dir, f.stem>> \notin StemsOf(last_cleanup'.to_delete)
           /\ \A f \in files \ files' :
                 <<f.dir, f.stem>> \in StemsOf(last_cleanup'.to_delete)
           /\ \A f \in files :
                 (<<f.dir, f.stem>> \in StemsOf(last_cleanup'.to_keep)
                    /\ <<f.dir, f.stem>> \notin StemsOf(last_cleanup'.to_delete))
                 => f \in files'
    ]_vars

(* A real cleanup without errors deleted a full image with its companion   *)
(* and segment and a differential with its segment, and kept a cycle of    *)
(* the same shape                                                          *)
C28_Witness ==
    /\ last_cleanup.called /\ ~last_cleanup.dry_run
    /\ last_cleanup.stats.errors = <<>>
    /\ last_cleanup.stats.deleted_files >= 5
    /\ \E f \in files : f.dir = "full" /\ f.ext = "sn1"
    /\ \E f \in files : f.dir = "differential" /\ f.ext = "sn1"


(* The full images a list of cycles is made of, in order *)
FullsOf(cs) == [i \in 1..Len(cs) |-> cs[i].full_backup]

(* C29: a partial image left behind by a run that was killed during the    *)
(* imaging call is an untracked extra file for the next get_backup_cycles: *)
(* it is no cycle of its own, does not count toward keep_cycles and does   *)
(* not change which cycles are condemned.                                  *)
C29_PartialIsUntracked ==
    [][
        (pc = "imaging" /\ Len(attempts') = Len(attempts) + 1
           /\ ~Last(attempts').imaged)
        => /\ FullsOf(get_backup_cycles(files')) = FullsOf(get_backup_cycles(files))
           /\ FullsOf(cycles_to_delete(get_backup_cycles(files'), config.keep_cycles))
                = FullsOf(cycles_to_delete(get_backup_cycles(files),
                                           config.keep_cycles))
    ]_vars


(* The current run was refused for lack of space *)
Refused ==
    /\ run.mode = "backup" /\ run.reassessed
    /\ ~run.info2.has_enough_space

(* C31: a run refused for insufficient space attempts no backup: the       *)
(* persisted state (both pointers, the count, the history) is what it was  *)
(* when the run began, and no history entry is appended.                   *)
C31_RefusalLeavesState ==
    /\ [](
          Refused
          => /\ pc = "exited" /\ exit_code = 1
             /\ ~run.invoked /\ ~run.result.made
             /\ state_file = state
             /\ ~state_file_partial
       )
    /\ [][
          (run.mode = "backup" /\ pc \in {"check", "cleanup", "reassess"})
          => /\ state_file' = state_file
             /\ state_file_partial' = state_file_partial
             /\ state' = state
             /\ attempts' = attempts
       ]_vars

(* A run was refused after measuring too little space, on a volume with a  *)
(* recorded history                                                        *)
C31_Witness ==
    /\ Refused /\ run.info2 # NoInfo
    /\ run.info2.free_bytes < run.info2.required_bytes
    /\ state_file.backups # <<>>
    /\ state_file.last_full_backup # None
    /\ pc = "exited"


(* The two pointers of a state are set together and name one stem *)
PointersPaired(st) ==
    /\ st.last_full_backup = None <=> st.last_full_hash_file = None
    /\ st.last_full_backup # None
       => /\ st.last_full_hash_file = WithSuffix(st.last_full_backup, "hsh")
          /\ st.last_full_hash_file.dir = st.last_full_backup.dir
          /\ st.last_full_hash_file.stem = st.last_full_backup.stem
          /\ st.last_full_backup.ext = "sna"

(* C32: in every state reachable from the empty one by run_backup calls,   *)
(* last_full_backup is set exactly when last_full_hash_file is set, and    *)
(* the companion path is then the path of the full image with its          *)
(* extension replaced by .hsh (same directory, same stem).                 *)
C32_PointersPaired ==
    PointersPaired(state) /\ PointersPaired(state_file)

(* A chain with a full backup and a differential counted on it, after a    *)
(* later attempt that failed                                               *)
C32_Witness ==
    /\ state_file.last_full_backup # None
    /\ state_file.differential_count > 0
    /\ Len(state_file.backups) >= 3
    /\ ~Last(state_file.backups).success


(* The paths present in a directory *)
PathsOf(fs) == {PathOf(f) : f \in fs}

(* The first assessment of the current backup run found enough space *)
FirstSufficient(r) ==
    r.mode = "backup" /\ r.assessed /\ r.info1.has_enough_space

(* C33: when the first space assessment of check_and_prepare_backup is     *)
(* sufficient, the run calls no cleanup and no step of it removes a file,  *)
(* even with more cycles on disk than keep_cycles.                         *)
C33_NoCleanupWhenSufficient ==
    /\ [](FirstSufficient(run)
          => ~run.cleaned /\ ~run.reassessed /\ last_cleanup = NoCleanup)
    /\ [][
          FirstSufficient(run')
          => PathsOf(files) \subseteq PathsOf(files')
       ]_vars

(* A run with enough space went through imaging while more cycles were on  *)
(* disk than keep_cycles (at least one) keeps                              *)
C33_Witness ==
    /\ FirstSufficient(run)
    /\ run.result.made
    /\ config.keep_cycles >= 1
    /\ Len(get_backup_cycles(files)) > config.keep_cycles + 1


(* The current process started while backup_state.json could not be read   *)
(* and has not rewritten it                                                *)
StartedUnreadable ==
    /\ state_file_partial
    /\ run.mode \in {"backup", "status", "cleanup", "dryrun"}
    /\ run.ended = "none"

(* C34: if the persisted state record is missing or cannot be parsed at    *)
(* startup, the run proceeds with the empty state (no pointers, count 0,   *)
(* empty history), so the automatic decision is FULL whatever artifacts    *)
(* are on disk.                                                            *)
C34_UnreadableStateIsEmpty ==
    StartedUnreadable
    => /\ state = BackupState
       /\ state.last_full_backup = None /\ state.last_full_hash_file = None
       /\ state.differential_count = 0 /\ state.backups = <<>>
       /\ determine_backup_type(state, files, config.max_differentials) = "full"
       /\ run.invoked => run.auto_type = "full"
       /\ (run.invoked /\ run.force = "none") => run.backup_type = "full"

(* An automatic run decided FULL although the unreadable record named a    *)
(* full backup whose companion is on disk and whose count is below the     *)
(* limit                                                                   *)
C34_Witness ==
    /\ StartedUnreadable
    /\ run.invoked /\ run.force = "none" /\ run.backup_type = "full"
    /\ state_file.last_full_hash_file # None
    /\ Exists(files, state_file.last_full_hash_file)
    /\ determine_backup_type(state_file, files, config.max_differentials)
          = "differential"


(* The current run was told --differential and its state names no companion *)
ForcedWithoutCompanion ==
    /\ run.mode = "backup" /\ run.force = "differential"
    /\ state.last_full_hash_file = None

(* C35: a run with a forced DIFFERENTIAL type whose state has no companion *)
(* pointer never invokes the imaging tool, leaves the persisted state      *)
(* unchanged with no history entry appended, and ends with a non-zero exit *)
(* status.                                                                 *)
C35_ForcedDiffWithoutFull ==
    /\ [](
          ForcedWithoutCompanion
          => /\ ~run.invoked /\ pc # "imaging" /\ ~run.result.made
             /\ state_file = state /\ ~state_file_partial
             /\ pc = "exited" => exit_code # 0
       )
    /\ [][
          ForcedWithoutCompanion
          => /\ state_file' = state_file
             /\ state_file_partial' = state_file_partial
             /\ attempts' = attempts
             /\ pc' \in {"cleanup", "reassess", "backup", "exited", "idle"}
       ]_vars

(* A forced differential got past the space check and ended at the missing *)
(* companion pointer, on a volume whose record holds failed attempts only   *)
C35_Witness ==
    /\ ForcedWithoutCompanion
    /\ run.backup_type = "differential" /\ run.assessed
    /\ pc = "exited" /\ exit_code = 1
    /\ state_file.backups # <<>>
    /\ files # {}


(* The cycles of a list that no other cycle of it is newer than *)
Newest(cs) ==
    {c \in SeqToSet(cs) : \A d \in SeqToSet(cs) : d.timestamp <= c.timestamp}

(* What a cleanup that has just returned r left of the newest cycle *)
NewestSurvives(r, fs) ==
    \A c \in Newest(r.cycles) :
        /\ \A i \in 1..Len(r.to_delete) :
              r.to_delete[i].full_backup # c.full_backup
        /\ \E i \in 1..Len(r.to_keep) : r.to_keep[i] = c
        /\ Exists(fs, c.full_backup)
        /\ \E k \in Newest(get_backup_cycles(fs)) :
              k.full_backup = c.full_backup

(* C36: for every keep_cycles >= 1 and every directory, cleanup_old_cycles *)
(* never condemns the cycle with the greatest timestamp, and the full      *)
(* image of the newest cycle is still on disk when the cleanup returns     *)
(* (real or dry run, with or without unlink errors).                       *)
C36_NewestCycleSurvives ==
    [][
        (/\ pc \in {"idle", "cleanup"}
         /\ last_cleanup'.called
         /\ config.keep_cycles >= 1)
        => NewestSurvives(last_cleanup', files')
    ]_vars

(* A real cleanup with keep_cycles >= 1 has unlinked files of a condemned  *)
(* cycle and the newest cycle's full image is on disk                      *)
C36_Witness ==
    /\ last_cleanup.called /\ ~last_cleanup.dry_run
    /\ config.keep_cycles >= 1
    /\ Len(last_cleanup.to_delete) >= 1
    /\ last_cleanup.stats.deleted_files >= 1
    /\ pc = "reassess" \/ (pc = "exited" /\ run.mode = "cleanup")
    /\ \A c \in Newest(last_cleanup.cycles) : Exists(files, c.full_backup)
    /\ Cardinality(Newest(last_cleanup.cycles)) = 1

====
